---- MODULE Spec2Model ----
(***************************************************************************)
(* EHR -> Salesforce ETL pipeline (run_pipeline) and its collaborators:    *)
(* the REST record loader, the identifier map builder and the dependent    *)
(* field transformers.  Identifiers of both systems are naturals; None     *)
(* stands for Python's None and pandas' NaN.                               *)
(***************************************************************************)
EXTENDS Integers, Sequences, FiniteSets, TLC

\* ------------------------------------------------------------------ bounds
\* Entries the source system returns per resource type in a pipeline run.
MaxRecords == 2
\* Create calls the target system may reject during one pipeline run.
MaxFailures == 1
\* Records handed to a stand-alone loader call.
MaxLoad == 3
\* Appointments handed to a stand-alone appointment resolution.
MaxAppointments == 2

\* ------------------------------------------------------------ pandas helpers
\* Python None / pandas NaN: the value dropna() and Series.map() treat as missing.
None == 0

\* pd.DataFrame(list_of_dicts): an empty list gives a frame with no columns.
DataFrame(rows) ==
    [columns |-> IF rows = <<>> THEN {} ELSE DOMAIN rows[1], rows |-> rows]

\* df[cols] / df[col]: selecting a column the frame does not have raises KeyError.
KeyError(df, cols) == ~(cols \subseteq df.columns)

\* dataframe.empty
Empty(df) == Len(df.rows) = 0

\* Series.map(dict): a key without an entry maps to NaN.
Map(key, dict) == IF key \in DOMAIN dict THEN dict[key] ELSE None

\* dropna(subset=cols) with the default how='any': a row is kept only when
\* none of the subset's columns is missing.
DropNaAnyColumn(rows, subset) ==
    SelectSeq(rows, LAMBDA r :
        \A c \in subset \cup {"ServiceTerritoryId"} : r[c] # None)
DropNa(rows, subset) ==
    SelectSeq(rows, LAMBDA r : \A c \in subset : r[c] # None)

\* {rec[kf]: rec[vf] for rec in recs}: a later record overwrites an earlier
\* one with the same key.
DictOf(recs, kf, vf) ==
    [k \in {recs[i][kf] : i \in DOMAIN recs} |->
        recs[CHOOSE i \in DOMAIN recs :
                /\ recs[i][kf] = k
                /\ \A j \in DOMAIN recs : recs[j][kf] = k => j <= i][vf]]

\* ------------------------------------------------------------ transformers
\* The fixed work type catalogue; code WTnnn is the number nnn.
WORK_TYPES ==
    << [code |-> 123, display |-> "New Patient Consultation"],
       [code |-> 456, display |-> "Follow-up Visit"],
       [code |-> 789, display |-> "Annual Checkup"],
       [code |-> 12,  display |-> "Consultation"],
       [code |-> 34,  display |-> "Nurse Visit"] >>

\* first_name + " " + last_name
FullName(first, last) == <<first, last>>

\* The participant loop of appointments_to_df: the identifier of the last
\* participant whose actor reference starts with kind + '/', None when the
\* payload has no such participant.
ParticipantId(participant, kind) ==
    LET refs == {k \in DOMAIN participant : participant[k].kind = kind}
    IN IF refs = {} THEN None
       ELSE participant[CHOOSE k \in refs : \A j \in refs : j <= k].id

\* appointments_to_df: one row per entry, whatever the entry lacks.
appointments_to_df(appointment_entries) ==
    DataFrame([i \in DOMAIN appointment_entries |->
        LET resource == appointment_entries[i]
        IN [appointment_id  |-> resource.id,
            patient_id      |-> ParticipantId(resource.participant, "Patient"),
            practitioner_id |-> ParticipantId(resource.participant,
                                              "Practitioner"),
            location_id     |-> ParticipantId(resource.participant,
                                              "Location"),
            work_type_code  |-> resource.serviceType,
            status          |-> resource.status,
            start           |-> resource.start,
            end             |-> resource.end]])

transform_locations_for_sf(locations_df) ==
    DataFrame([i \in DOMAIN locations_df.rows |->
        [Name               |-> locations_df.rows[i].name,
         EHR_Location_Id__c |-> locations_df.rows[i].location_id,
         OperatingHoursId   |-> "0OHbm000002EyftGAC"]])

transform_work_types_for_sf ==
    DataFrame([i \in DOMAIN WORK_TYPES |->
        [Name                |-> WORK_TYPES[i].display,
         EstimatedDuration   |-> 30,
         DurationType        |-> "Minutes",
         EHR_Work_Type_Id__c |-> WORK_TYPES[i].code]])

transform_users_for_sf(providers_df) ==
    DataFrame([i \in DOMAIN providers_df.rows |->
        [FirstName |-> providers_df.rows[i].first_name,
         LastName  |-> providers_df.rows[i].last_name,
         Email     |-> providers_df.rows[i].email,
         Username  |-> providers_df.rows[i].email,
         IsActive  |-> TRUE]])

transform_patients_for_sf_anonymous(patients_df) ==
    DataFrame([i \in DOMAIN patients_df.rows |->
        [Name              |-> patients_df.rows[i].name,
         EHR_Patient_Id__c |-> None]])
transform_patients_for_sf(patients_df) ==
    DataFrame([i \in DOMAIN patients_df.rows |->
        [Name              |-> patients_df.rows[i].name,
         EHR_Patient_Id__c |-> patients_df.rows[i].patient_id]])

\* The column whose missing value excludes a provider from the Wave-2 load.
SResourceRequiredNone == {}
SResourceRequired == {"RelatedRecordId"}

\* sresources_df before the dropna: every provider, RelatedRecordId looked up
\* by email in the user map.
SResourcesMapped(providers_df, user_id_map) ==
    [i \in DOMAIN providers_df.rows |->
        [Name               |-> FullName(providers_df.rows[i].first_name,
                                         providers_df.rows[i].last_name),
         EHR_Resource_Id__c |-> providers_df.rows[i].practitioner_id,
         Description        |-> providers_df.rows[i].specialty,
         IsActive           |-> TRUE,
         AccountId          |-> "001bm00001CPgZKAA1",
         RelatedRecordId    |-> Map(providers_df.rows[i].email, user_id_map)]]

transform_sresources_for_sf(providers_df, user_id_map) ==
    [columns |-> {"Name", "EHR_Resource_Id__c", "Description", "IsActive",
                  "AccountId", "RelatedRecordId"},
     rows    |-> DropNa(SResourcesMapped(providers_df, user_id_map),
                        SResourceRequired)]

\* records_skipped of transform_sresources_for_sf.
records_skipped(providers_df, user_id_map) ==
    Len(providers_df.rows)
        - Len(transform_sresources_for_sf(providers_df, user_id_map).rows)

\* ------------------------------------------------------------- timestamps
\* A timestamp text 'YYYY-MM-DDTHH:MM:SS' of the year 2025, with or without
\* a trailing 'Z', is the number with the decimal digits ddd hh mm z: day of
\* the year, hour, minute, and z = 1 for the trailing 'Z' (seconds are 00
\* throughout).  A parsed timestamp is the number of minutes since
\* 2025-01-01 00:00, or NaT.
NaT == -1
TextOf(day, hour, minute, z) == ((day * 100 + hour) * 100 + minute) * 10 + z

\* .str.replace('Z', '', regex=False): a missing value stays missing.
StripZ(s) == IF s = None THEN None ELSE s - (s % 10)

\* pd.to_datetime(text, errors='coerce'): NaT for a missing value and for a
\* text that is no timestamp.
to_datetime(s) ==
    LET day    == s \div 100000
        hour   == (s \div 1000) % 100
        minute == (s \div 10) % 100
    IN IF s # None /\ s % 10 = 0 /\ day \in 1..365 /\ hour < 24
          /\ minute < 60
       THEN ((day - 1) * 24 + hour) * 60 + minute
       ELSE NaT

\* America/New_York in 2025: clocks go from 02:00 to 03:00 on March 9 (day
\* 68) and from 02:00 back to 01:00 on November 2 (day 306).
GapBegin       == ((68 - 1) * 24 + 2) * 60
GapEnd         == ((68 - 1) * 24 + 3) * 60
AmbiguousBegin == ((306 - 1) * 24 + 1) * 60
AmbiguousEnd   == ((306 - 1) * 24 + 2) * 60

\* .dt.tz_localize(ZoneInfo('America/New_York')) with the default
\* nonexistent='raise' and ambiguous='raise': the exception it raises for a
\* wall-clock time, "" when it raises none.
LocalizeError(t) ==
    IF t # NaT /\ t >= GapBegin /\ t < GapEnd THEN "NonExistentTimeError"
    ELSE IF t # NaT /\ t >= AmbiguousBegin /\ t < AmbiguousEnd
         THEN "AmbiguousTimeError"
         ELSE ""

\* The UTC offset, in minutes, tz_localize gives a wall-clock time.
UtcOffset(t) == IF t >= GapEnd /\ t < AmbiguousBegin THEN 0 - 240 ELSE 0 - 300

\* .dt.tz_localize(New York) then .dt.tz_convert('UTC'): the instant, as
\* minutes since 2025-01-01 00:00 UTC; NaT stays NaT.
tz_convert_utc(t) == IF t = NaT THEN NaT ELSE t - UtcOffset(t)

\* .dt.strftime('%Y-%m-%dT%H:%M:%SZ'): a missing value for NaT.
strftime(t) ==
    IF t = NaT THEN None
    ELSE TextOf((t \div 1440) + 1, (t % 1440) \div 60, t % 60, 1)

\* The SchedStartTime / SchedEndTime computed from a source text.
SchedTime(s) == strftime(tz_convert_utc(to_datetime(StripZ(s))))

\* Status.replace({'booked': 'Scheduled', 'cancelled': 'Canceled',
\*                 'fulfilled': 'Completed'})
StatusReplaceStrict(status) ==
    CASE status = "booked"    -> "Scheduled"
      [] status = "cancelled" -> "Canceled"
      [] status = "fulfilled" -> "Completed"
      [] OTHER                -> "Scheduled"
StatusReplace(status) ==
    CASE status = "booked"    -> "Scheduled"
      [] status = "cancelled" -> "Canceled"
      [] status = "fulfilled" -> "Completed"
      [] OTHER                -> status

\* required_cols of transform_appointments_for_sf.
required_cols_with_times ==
    {"ParentRecordId", "Service_Resource__c", "ContactId", "WorkTypeId",
     "SchedStartTime", "SchedEndTime"}
required_cols_with_territory ==
    {"ParentRecordId", "Service_Resource__c", "ContactId", "WorkTypeId",
     "ServiceTerritoryId"}
required_cols_without_worktype ==
    {"ParentRecordId", "Service_Resource__c", "ContactId"}
required_cols ==
    {"ParentRecordId", "Service_Resource__c", "ContactId", "WorkTypeId"}

\* A lookup that takes ContactId from the first entry of
\* practitioner_details instead of the practitioner's own.
ResourceDetailOfFirstEntry(practitioner_id, sf_id_maps, field) ==
    IF practitioner_id \in DOMAIN sf_id_maps.practitioner_details
    THEN IF field = "ContactId"
         THEN sf_id_maps.practitioner_details[
                 CHOOSE k \in DOMAIN sf_id_maps.practitioner_details :
                    \A j \in DOMAIN sf_id_maps.practitioner_details : k <= j
              ].ContactId
         ELSE sf_id_maps.practitioner_details[practitioner_id][field]
    ELSE None

\* x['Service_Resource__c'] if isinstance(x, dict) else None, and the same
\* for ContactId, on the practitioner_details entry of the practitioner.
ResourceDetail(practitioner_id, sf_id_maps, field) ==
    IF practitioner_id \in DOMAIN sf_id_maps.practitioner_details
    THEN sf_id_maps.practitioner_details[practitioner_id][field]
    ELSE None

\* One appointment row with its foreign keys looked up (before the dropna).
AppointmentMapped(a, sf_id_maps) ==
    [EHR_Appointment_Id__c |-> a.appointment_id,
     Status                |-> StatusReplace(a.status),
     SchedStartTime        |-> SchedTime(a.start),
     SchedEndTime          |-> SchedTime(a.end),
     ParentRecordId        |-> Map(a.patient_id, sf_id_maps.patient_to_account),
     Service_Resource__c   |-> ResourceDetail(a.practitioner_id, sf_id_maps,
                                              "Service_Resource__c"),
     ContactId             |-> ResourceDetail(a.practitioner_id, sf_id_maps,
                                              "ContactId"),
     ServiceTerritoryId    |-> Map(a.location_id,
                                   sf_id_maps.location_to_territory),
     WorkTypeId            |-> Map(a.work_type_code,
                                   sf_id_maps.worktype_code_to_id)]

\* sa_df_ready: the rows that survive dropna(subset=required_cols).
DropNaRequired(rows) == DropNa(rows, required_cols)

\* skipped_count of transform_appointments_for_sf.
skipped_count(appointments_df, sf_id_maps) ==
    Len(appointments_df.rows)
        - Len(DropNaRequired([i \in DOMAIN appointments_df.rows |->
                AppointmentMapped(appointments_df.rows[i], sf_id_maps)]))

transform_appointments_for_sf(appointments_df, sf_id_maps) ==
    [columns |-> {"EHR_Appointment_Id__c", "ParentRecordId",
                  "Service_Resource__c", "ContactId", "ServiceTerritoryId",
                  "WorkTypeId", "SchedStartTime", "SchedEndTime", "Status"},
     rows    |-> DropNaRequired([i \in DOMAIN appointments_df.rows |->
                    AppointmentMapped(appointments_df.rows[i], sf_id_maps)])]

\* ------------------------------------------------------------ target system
\* The target system: the records it holds per object type (in creation
\* order), the next identifier it assigns, and the value it gives IsActive on
\* a ServiceTerritory created without one.
SObjects ==
    {"ServiceTerritory", "User", "Account", "WorkType", "ServiceResource",
     "ServiceAppointment", "Contact"}

\* The record the target system holds after create(record) returned id.
Stored(id, record, obj, target) ==
    [Id |-> id] @@ record @@
        (IF obj = "ServiceTerritory" THEN [IsActive |-> target.territoryActive]
         ELSE <<>>)

\* The target system after a successful create of record as object obj.
Created(target, obj, record) ==
    [target EXCEPT
        !.records[obj] = Append(@, Stored(target.nextId, record, obj, target)),
        !.nextId = @ + 1]

\* sf.query_all(query)['records'] for the five queries of build_sf_id_maps.
account_query(target) ==
    SelectSeq(target.records["Account"],
              LAMBDA r : r.EHR_Patient_Id__c # None)
resource_query(target) ==
    SelectSeq(target.records["ServiceResource"],
              LAMBDA r : r.EHR_Resource_Id__c # None /\ r.IsActive)
contact_query(target) == target.records["Contact"]
territory_query(target) ==
    SelectSeq(target.records["ServiceTerritory"],
              LAMBDA r : r.EHR_Location_Id__c # None /\ r.IsActive)
worktype_query(target) ==
    SelectSeq(target.records["WorkType"],
              LAMBDA r : r.EHR_Work_Type_Id__c # None)

\* The object each query of build_sf_id_maps reads, in the order issued.
MapQueries ==
    <<"Account", "ServiceResource", "Contact", "ServiceTerritory", "WorkType">>

\* The loop of build_sf_id_maps over resources_data: a resource whose Name is
\* no contact's Name adds no entry; a later resource with the same
\* EHR_Resource_Id__c overwrites an earlier one.
practitioner_details_unjoined(resources_data, name_to_contact_id) ==
    [k \in {resources_data[i].EHR_Resource_Id__c : i \in DOMAIN resources_data} |->
          LET rec == resources_data[CHOOSE i \in DOMAIN resources_data :
                        /\ resources_data[i].EHR_Resource_Id__c = k
                        /\ \A j \in DOMAIN resources_data :
                              resources_data[j].EHR_Resource_Id__c = k => j <= i]
          IN [Service_Resource__c |-> rec.Id,
              ContactId           |-> Map(rec.Name, name_to_contact_id)]]
\* A loop that keeps the first resource joined per EHR_Resource_Id__c and
\* ignores the later ones.
practitioner_details_first_wins(resources_data, name_to_contact_id) ==
    LET joined == SelectSeq(resources_data,
                            LAMBDA rec : rec.Name \in DOMAIN name_to_contact_id)
    IN [k \in {joined[i].EHR_Resource_Id__c : i \in DOMAIN joined} |->
          LET rec == joined[CHOOSE i \in DOMAIN joined :
                              /\ joined[i].EHR_Resource_Id__c = k
                              /\ \A j \in DOMAIN joined :
                                    joined[j].EHR_Resource_Id__c = k => i <= j]
          IN [Service_Resource__c |-> rec.Id,
              ContactId           |-> name_to_contact_id[rec.Name]]]
practitioner_details(resources_data, name_to_contact_id) ==
    LET joined == SelectSeq(resources_data,
                            LAMBDA rec : rec.Name \in DOMAIN name_to_contact_id)
    IN [k \in {joined[i].EHR_Resource_Id__c : i \in DOMAIN joined} |->
          LET rec == joined[CHOOSE i \in DOMAIN joined :
                              /\ joined[i].EHR_Resource_Id__c = k
                              /\ \A j \in DOMAIN joined :
                                    joined[j].EHR_Resource_Id__c = k => j <= i]
          IN [Service_Resource__c |-> rec.Id,
              ContactId           |-> name_to_contact_id[rec.Name]]]

build_sf_id_maps(target) ==
    LET accounts_data    == account_query(target)
        resources_data   == resource_query(target)
        contact_data     == contact_query(target)
        territories_data == territory_query(target)
        worktypes_data   == worktype_query(target)
    IN [patient_to_account       |->
            DictOf(accounts_data, "EHR_Patient_Id__c", "Id"),
        practitioner_to_resource |->
            DictOf(resources_data, "EHR_Resource_Id__c", "Id"),
        resource_name_to_id      |-> DictOf(resources_data, "Name", "Id"),
        practitioner_details     |->
            practitioner_details(resources_data,
                                 DictOf(contact_data, "Name", "Id")),
        location_to_territory    |->
            DictOf(territories_data, "EHR_Location_Id__c", "Id"),
        worktype_code_to_id      |->
            DictOf(worktypes_data, "EHR_Work_Type_Id__c", "Id")]

\* sf_id_maps before build_sf_id_maps has run.
NoMaps ==
    [patient_to_account |-> <<>>, practitioner_to_resource |-> <<>>,
     resource_name_to_id |-> <<>>, practitioner_details |-> <<>>,
     location_to_territory |-> <<>>, worktype_code_to_id |-> <<>>]

\* ------------------------------------------------------------------ state
VARIABLES
    pc,                 \* the statement of run_pipeline about to execute
    trace,              \* the stages the run has entered, in order
    raised,             \* the exception that ended the run, "" while none did
    ehr,                \* the source system: its entries per resource type
    sf,                 \* the target system behind the connection sf
    calls,              \* the calls made on sf so far, in order, with outcomes
    faults,             \* the exceptions the target system will still raise on create calls, in order
    locations_df, providers_df, patients_df, appointments_df,
    sf_territories_df, sf_work_types_df, sf_users_df, sf_patients_df,
    sf_sresources_df, sf_appointments_df,
    results,            \* the load result per object type (location_results, ...)
    user_id_map,
    sf_id_maps,
    ld,                 \* the frame of the running load_data_to_salesforce_rest
    fetch               \* the frame of the running source request (url, entries)

extracted == <<locations_df, providers_df, patients_df, appointments_df>>
wave1 == <<sf_territories_df, sf_work_types_df, sf_users_df, sf_patients_df>>
vars ==
    <<pc, trace, raised, ehr, sf, calls, faults, extracted, wave1,
      sf_sresources_df, sf_appointments_df, results, user_id_map, sf_id_maps,
      ld, fetch>>

\* ------------------------------------------------------------ run_pipeline
\* The statements of run_pipeline that act, in program order.
ProgramOrderLateWorkType ==
    <<"Extract", "Transform",
      "LoadServiceTerritory", "LoadUser", "LoadAccount",
      "MapUsers", "TransformSResources", "LoadServiceResource",
      "LoadWorkType",
      "BuildSfIdMaps", "TransformAppointments", "LoadServiceAppointment",
      "Done">>
ProgramOrderMapsFirst ==
    <<"Extract", "Transform",
      "LoadServiceTerritory", "LoadUser", "LoadAccount", "LoadWorkType",
      "MapUsers", "BuildSfIdMaps", "TransformSResources",
      "LoadServiceResource",
      "TransformAppointments", "LoadServiceAppointment", "Done">>
ProgramOrder ==
    <<"Extract", "Transform",
      "LoadServiceTerritory", "LoadUser", "LoadAccount", "LoadWorkType",
      "MapUsers", "TransformSResources", "LoadServiceResource",
      "BuildSfIdMaps", "TransformAppointments", "LoadServiceAppointment",
      "Done">>

\* The statement that follows statement p.
NextPoint(p) ==
    ProgramOrder[(CHOOSE i \in DOMAIN ProgramOrder : ProgramOrder[i] = p) + 1]

\* run_pipeline has no try/except: an exception raised by a statement leaves
\* the function.
UnhandledSwallowed(p) == NextPoint(p)
Unhandled(p) == "Aborted"

\* The stage of the orchestrator's state machine a statement belongs to.
StageOf(p) ==
    CASE p = "Extract"                -> "Extract"
      [] p = "Transform"              -> "NormalizeIndependent"
      [] p \in {"LoadServiceTerritory", "LoadUser", "LoadAccount",
                "LoadWorkType"}       -> "LoadWave1"
      [] p = "MapUsers"               -> "BuildMap(v1)"
      [] p = "TransformSResources"    -> "ResolveWave2"
      [] p = "LoadServiceResource"    -> "LoadWave2"
      [] p = "BuildSfIdMaps"          -> "BuildMap(v2)"
      [] p = "TransformAppointments"  -> "ResolveAppointments"
      [] p = "LoadServiceAppointment" -> "LoadWave3"
      [] p = "Done"                   -> "Done"
      [] OTHER                        -> "Aborted"

\* The statements that call load_data_to_salesforce_rest, with the frame and
\* the object name each passes.
LoadPoints ==
    {"LoadServiceTerritory", "LoadUser", "LoadAccount", "LoadWorkType",
     "LoadServiceResource", "LoadServiceAppointment"}
LoadObject(p) ==
    CASE p = "LoadServiceTerritory"   -> "ServiceTerritory"
      [] p = "LoadUser"               -> "User"
      [] p = "LoadAccount"            -> "Account"
      [] p = "LoadWorkType"           -> "WorkType"
      [] p = "LoadServiceResource"    -> "ServiceResource"
      [] p = "LoadServiceAppointment" -> "ServiceAppointment"
LoadFrame(p) ==
    CASE p = "LoadServiceTerritory"   -> sf_territories_df
      [] p = "LoadUser"               -> sf_users_df
      [] p = "LoadAccount"            -> sf_patients_df
      [] p = "LoadWorkType"           -> sf_work_types_df
      [] p = "LoadServiceResource"    -> sf_sresources_df
      [] p = "LoadServiceAppointment" -> sf_appointments_df
LoadObjects == {LoadObject(p) : p \in LoadPoints}

\* Control moves to statement p.
Goto(p) ==
    /\ pc' = p
    /\ trace' = IF StageOf(p) = trace[Len(trace)] THEN trace
                ELSE Append(trace, StageOf(p))

\* The current statement raises exception e.
Raise(e) ==
    /\ Goto(Unhandled(pc))
    /\ raised' = e

\* A frame, a load result and a loader frame before they are assigned.
NoFrame == [columns |-> {}, rows |-> <<>>]
NoResult == [status |-> "not loaded"]
IdleLoader ==
    [active |-> FALSE, sf_object_name |-> "", records_to_load |-> <<>>,
     i |-> 0, success_count |-> 0, failed_records_details |-> <<>>,
     successful_records_details |-> <<>>]

\* The columns each transformer of the first transform phase selects from
\* its input frame.
LocationColumns == {"name", "location_id"}
ProviderColumns ==
    {"first_name", "last_name", "email", "practitioner_id", "specialty"}
PatientColumns == {"name", "patient_id"}
AppointmentColumns ==
    {"appointment_id", "patient_id", "practitioner_id", "location_id",
     "work_type_code", "status", "start", "end"}

\* Whether a transformer of the first transform phase selects a column its
\* input frame does not have.
TransformKeyError ==
    KeyError(locations_df, LocationColumns)
        \/ KeyError(providers_df, ProviderColumns)
        \/ KeyError(patients_df, PatientColumns)

\* 3. EXTRACT: the four extract calls return the source system's entries.
Extract ==
    /\ pc = "Extract"
    /\ locations_df' = DataFrame(ehr.Location)
    /\ providers_df' = DataFrame(ehr.PractitionerRole)
    /\ patients_df' = DataFrame(ehr.Patient)
    /\ appointments_df' = appointments_to_df(ehr.Appointment)
    /\ Goto(NextPoint(pc))
    /\ UNCHANGED <<fetch, raised, ehr, sf, calls, faults, wave1,
                   sf_sresources_df, sf_appointments_df, results,
                   user_id_map, sf_id_maps, ld>>

\* An extract call raises (response.raise_for_status()).
ExtractRaises ==
    /\ pc = "Extract"
    /\ Raise("HTTPError")
    /\ UNCHANGED <<fetch, ehr, sf, calls, faults, extracted, wave1,
                   sf_sresources_df, sf_appointments_df, results,
                   user_id_map, sf_id_maps, ld>>

\* 4. TRANSFORM: the four transformers of the independent objects.
Transform ==
    /\ pc = "Transform"
    /\ ~TransformKeyError
    /\ sf_territories_df' = transform_locations_for_sf(locations_df)
    /\ sf_work_types_df' = transform_work_types_for_sf
    /\ sf_users_df' = transform_users_for_sf(providers_df)
    /\ sf_patients_df' = transform_patients_for_sf(patients_df)
    /\ Goto(NextPoint(pc))
    /\ UNCHANGED <<fetch, raised, ehr, sf, calls, faults, extracted,
                   sf_sresources_df, sf_appointments_df, results,
                   user_id_map, sf_id_maps, ld>>

\* A transformer selects columns of a frame built from no entries.
TransformRaises ==
    /\ pc = "Transform"
    /\ TransformKeyError
    /\ Raise("KeyError")
    /\ UNCHANGED <<fetch, ehr, sf, calls, faults, extracted, wave1,
                   sf_sresources_df, sf_appointments_df, results,
                   user_id_map, sf_id_maps, ld>>

\* ---------------------------------------------- load_data_to_salesforce_rest
\* The exceptions a create call may raise; str(e) is the name.
ExceptionList == <<"SalesforceMalformedRequest", "ConnectionError">>
Exceptions == {ExceptionList[k] : k \in DOMAIN ExceptionList}

\* One call on the connection, as recorded in calls.
CreateCall(obj, record, ok, id, error) ==
    [op |-> "create", object |-> obj, stage |-> StageOf(pc),
     record |-> record, ok |-> ok, id |-> id, error |-> error]
QueryCall(obj, ok) ==
    [op |-> "query_all", object |-> obj, stage |-> StageOf(pc),
     record |-> <<>>, ok |-> ok, id |-> None, error |-> ""]

\* The early return for an empty frame.
EmptyResultOneFailure ==
    [success_count |-> 0, failure_count |-> 1,
     status |-> "DataFrame is empty, no records loaded.",
     successful_records |-> <<>>]
EmptyResult ==
    [success_count |-> 0, failure_count |-> 0,
     status |-> "DataFrame is empty, no records loaded.",
     successful_records |-> <<>>]

\* The index enumerate() gives the record the loop is at.
LoopIndexOneBased(frame) == frame.i + 1
LoopIndex(frame) == frame.i

\* The loader's frame after the create call for the current record returned
\* result {id}.
AfterSuccess(frame, id) ==
    [frame EXCEPT
        !.success_count = @ + 1,
        !.successful_records_details =
            Append(@, [original_data |-> frame.records_to_load[frame.i + 1],
                       sf_id         |-> id,
                       index         |-> LoopIndex(frame)]),
        !.i = @ + 1]

\* The loader's frame after the create call for the current record raised e:
\* the except clause records the failure and the loop goes on.
AfterFailureBreaking(frame, e) ==
    [frame EXCEPT
        !.failed_records_details =
            Append(@, [record_index |-> LoopIndex(frame),
                       record_data  |-> frame.records_to_load[frame.i + 1],
                       errors       |-> e]),
        !.i = Len(frame.records_to_load)]
AfterFailure(frame, e) ==
    [frame EXCEPT
        !.failed_records_details =
            Append(@, [record_index |-> LoopIndex(frame),
                       record_data  |-> frame.records_to_load[frame.i + 1],
                       errors       |-> e]),
        !.i = @ + 1]

\* The dictionary the loader returns after its loop.
LoadResult(frame) ==
    [success_count      |-> frame.success_count,
     failure_count      |-> Len(frame.records_to_load) - frame.success_count,
     failed_records     |-> frame.failed_records_details,
     successful_records |-> frame.successful_records_details,
     status             |-> "Job completed successfully."]

\* The loader is called with an empty frame: it returns at once.
LoadEmpty ==
    /\ pc \in LoadPoints
    /\ ~ld.active
    /\ Empty(LoadFrame(pc))
    /\ results' = [results EXCEPT ![LoadObject(pc)] = EmptyResult]
    /\ Goto(NextPoint(pc))
    /\ UNCHANGED <<fetch, raised, ehr, sf, calls, faults, extracted, wave1,
                   sf_sresources_df, sf_appointments_df, user_id_map,
                   sf_id_maps, ld>>

\* The loader is called with records: dataframe.to_dict('records') and the
\* counters' initial values.
LoadBegin ==
    /\ pc \in LoadPoints
    /\ ~ld.active
    /\ ~Empty(LoadFrame(pc))
    /\ ld' = [IdleLoader EXCEPT
                !.active = TRUE,
                !.sf_object_name = LoadObject(pc),
                !.records_to_load = LoadFrame(pc).rows]
    /\ UNCHANGED <<fetch, pc, trace, raised, ehr, sf, calls, faults, extracted,
                   wave1, sf_sresources_df, sf_appointments_df, results,
                   user_id_map, sf_id_maps>>

\* sf_object_rest.create(record) returns the new record's identifier.
CreateReturns ==
    /\ ld.active
    /\ ld.i < Len(ld.records_to_load)
    /\ LET record == ld.records_to_load[ld.i + 1]
       IN /\ sf' = Created(sf, ld.sf_object_name, record)
          /\ calls' = Append(calls, CreateCall(ld.sf_object_name, record,
                                               TRUE, sf.nextId, ""))
          /\ ld' = AfterSuccess(ld, sf.nextId)
    /\ UNCHANGED <<fetch, pc, trace, raised, ehr, faults, extracted, wave1,
                   sf_sresources_df, sf_appointments_df, results,
                   user_id_map, sf_id_maps>>

\* sf_object_rest.create(record) raises.
CreateRaises ==
    /\ ld.active
    /\ ld.i < Len(ld.records_to_load)
    /\ faults # <<>>
    /\ calls' = Append(calls,
                       CreateCall(ld.sf_object_name,
                                  ld.records_to_load[ld.i + 1],
                                  FALSE, None, Head(faults)))
    /\ ld' = AfterFailure(ld, Head(faults))
    /\ faults' = Tail(faults)
    /\ UNCHANGED <<fetch, pc, trace, raised, ehr, sf, extracted, wave1,
                   sf_sresources_df, sf_appointments_df, results,
                   user_id_map, sf_id_maps>>

\* The loop is over: the loader returns its result to run_pipeline.
LoadReturn ==
    /\ ld.active
    /\ ld.i = Len(ld.records_to_load)
    /\ results' = [results EXCEPT ![ld.sf_object_name] = LoadResult(ld)]
    /\ ld' = IdleLoader
    /\ Goto(NextPoint(pc))
    /\ UNCHANGED <<fetch, raised, ehr, sf, calls, faults, extracted, wave1,
                   sf_sresources_df, sf_appointments_df, user_id_map,
                   sf_id_maps>>

\* ----------------------------------------------------- dependent objects
\* {rec['original_data']['Email']: rec['sf_id']
\*      for rec in user_results['successful_records']}
UserIdMapOfIndex(user_results) ==
    DictOf([i \in DOMAIN user_results.successful_records |->
                [Email |->
                    user_results.successful_records[i].original_data.Email,
                 sf_id |-> user_results.successful_records[i].index]],
           "Email", "sf_id")
UserIdMap(user_results) ==
    DictOf([i \in DOMAIN user_results.successful_records |->
                [Email |->
                    user_results.successful_records[i].original_data.Email,
                 sf_id |-> user_results.successful_records[i].sf_id]],
           "Email", "sf_id")

\* 6. MAP: the user map is built from the User load result.
MapUsers ==
    /\ pc = "MapUsers"
    /\ user_id_map' = UserIdMap(results["User"])
    /\ Goto(NextPoint(pc))
    /\ UNCHANGED <<fetch, raised, ehr, sf, calls, faults, extracted, wave1,
                   sf_sresources_df, sf_appointments_df, results,
                   sf_id_maps, ld>>

\* 7. TRANSFORM (Part 2)
TransformSResources ==
    /\ pc = "TransformSResources"
    /\ sf_sresources_df' = transform_sresources_for_sf(providers_df,
                                                       user_id_map)
    /\ Goto(NextPoint(pc))
    /\ UNCHANGED <<fetch, raised, ehr, sf, calls, faults, extracted, wave1,
                   sf_appointments_df, results, user_id_map, sf_id_maps, ld>>

\* 9. build_sf_id_maps(sf): its five queries return.
BuildSfIdMaps ==
    /\ pc = "BuildSfIdMaps"
    /\ sf_id_maps' = build_sf_id_maps(sf)
    /\ calls' = calls \o [k \in DOMAIN MapQueries |->
                              QueryCall(MapQueries[k], TRUE)]
    /\ Goto(NextPoint(pc))
    /\ UNCHANGED <<fetch, raised, ehr, sf, faults, extracted, wave1,
                   sf_sresources_df, sf_appointments_df, results,
                   user_id_map, ld>>

\* The n-th query of build_sf_id_maps raises; the function has no handler.
BuildSfIdMapsRaises ==
    /\ pc = "BuildSfIdMaps"
    /\ \E n \in DOMAIN MapQueries :
          calls' = calls \o [k \in 1..n |-> QueryCall(MapQueries[k], k < n)]
    /\ Raise("SalesforceError")
    /\ UNCHANGED <<fetch, ehr, sf, faults, extracted, wave1, sf_sresources_df,
                   sf_appointments_df, results, user_id_map, sf_id_maps, ld>>

\* The exceptions tz_localize may raise on a column of appointments_df: one
\* for each wall-clock time of the column that New York's clocks skip or
\* repeat.  The start column is localized before the end column.
ColumnLocalizeErrors(df, col) ==
    {LocalizeError(to_datetime(StripZ(df.rows[i][col]))) :
        i \in DOMAIN df.rows} \ {""}
LocalizeErrors(df) ==
    IF ColumnLocalizeErrors(df, "start") # {}
    THEN ColumnLocalizeErrors(df, "start")
    ELSE ColumnLocalizeErrors(df, "end")

\* transform_appointments_for_sf(appointments_df, sf_id_maps)
TransformAppointments ==
    /\ pc = "TransformAppointments"
    /\ ~KeyError(appointments_df, AppointmentColumns)
    /\ LocalizeErrors(appointments_df) = {}
    /\ sf_appointments_df' = transform_appointments_for_sf(appointments_df,
                                                           sf_id_maps)
    /\ Goto(NextPoint(pc))
    /\ UNCHANGED <<fetch, raised, ehr, sf, calls, faults, extracted, wave1,
                   sf_sresources_df, results, user_id_map, sf_id_maps, ld>>

\* appointments_df was built from no entries: appointments_df['Status']
\* raises.
TransformAppointmentsRaises ==
    /\ pc = "TransformAppointments"
    /\ KeyError(appointments_df, AppointmentColumns)
    /\ Raise("KeyError")
    /\ UNCHANGED <<fetch, ehr, sf, calls, faults, extracted, wave1,
                   sf_sresources_df, sf_appointments_df, results,
                   user_id_map, sf_id_maps, ld>>

\* tz_localize raises on a wall-clock time of the start or end column;
\* transform_appointments_for_sf has no handler and neither has run_pipeline.
TransformAppointmentsLocalizeRaises ==
    /\ pc = "TransformAppointments"
    /\ ~KeyError(appointments_df, AppointmentColumns)
    /\ \E e \in LocalizeErrors(appointments_df) : Raise(e)
    /\ UNCHANGED <<fetch, ehr, sf, calls, faults, extracted, wave1,
                   sf_sresources_df, sf_appointments_df, results,
                   user_id_map, sf_id_maps, ld>>

\* ------------------------------------------------------------ specifications
\* The source system's entries of a run: n entries per resource type, entry i
\* of each type carrying identifier i; appointment i refers to patient,
\* practitioner and location i and to the i-th work type of the catalogue.
Locations(n) == [i \in 1..n |-> [location_id |-> i, name |-> i]]
PractitionerRoles(n) ==
    [i \in 1..n |-> [practitioner_id |-> i, first_name |-> i, last_name |-> i,
                     email |-> i, specialty |-> "specialty"]]
Patients(n) == [i \in 1..n |-> [patient_id |-> i, name |-> i]]
Participants(i) ==
    <<[kind |-> "Patient", id |-> i], [kind |-> "Practitioner", id |-> i],
      [kind |-> "Location", id |-> i]>>
Appointments(n) ==
    [i \in 1..n |->
        [id |-> i, participant |-> Participants(i),
         serviceType |-> WORK_TYPES[((i - 1) % Len(WORK_TYPES)) + 1].code,
         status |-> "booked",
         start |-> TextOf(15, 9, 0, 1), end |-> TextOf(15, 9, 30, 1)]]

\* A target system that holds the contacts of practitioners 1..n and
\* nothing else.
TargetWithContacts(n, active) ==
    [records |-> [o \in SObjects |->
                    IF o = "Contact"
                    THEN [i \in 1..n |-> [Id |-> i, Name |-> FullName(i, i)]]
                    ELSE <<>>],
     nextId |-> n + 1,
     territoryActive |-> active]

\* No source request is running.
NoFetch ==
    [op |-> "", url |-> None, entries |-> <<>>, requests |-> <<>>,
     returned |-> FALSE]

\* The locals of run_pipeline before the run.
InitLocals ==
    /\ raised = ""
    /\ calls = <<>>
    /\ locations_df = NoFrame
    /\ providers_df = NoFrame
    /\ patients_df = NoFrame
    /\ sf_territories_df = NoFrame
    /\ sf_work_types_df = NoFrame
    /\ sf_users_df = NoFrame
    /\ sf_patients_df = NoFrame
    /\ sf_sresources_df = NoFrame
    /\ results = [o \in LoadObjects |-> NoResult]
    /\ user_id_map = <<>>
    /\ ld = IdleLoader
    /\ fetch = NoFetch

Init ==
    /\ pc = "Extract"
    /\ trace = <<StageOf("Extract")>>
    /\ \E nl \in {0, MaxRecords}, np \in {0, MaxRecords},
          nr \in 0..MaxRecords, na \in 0..MaxRecords :
          ehr = [Location |-> Locations(nl), PractitionerRole |->
                 PractitionerRoles(nr), Patient |-> Patients(np),
                 Appointment |-> Appointments(na)]
    /\ \E nc \in 0..MaxRecords, active \in BOOLEAN :
          sf = TargetWithContacts(nc, active)
    /\ faults = [k \in 1..MaxFailures |-> ExceptionList[((k - 1) % 2) + 1]]
    /\ InitLocals
    /\ appointments_df = NoFrame
    /\ sf_appointments_df = NoFrame
    /\ sf_id_maps = NoMaps

Next ==
    \/ Extract
    \/ ExtractRaises
    \/ Transform
    \/ TransformRaises
    \/ LoadEmpty
    \/ LoadBegin
    \/ CreateReturns
    \/ CreateRaises
    \/ LoadReturn
    \/ MapUsers
    \/ TransformSResources
    \/ BuildSfIdMaps
    \/ BuildSfIdMapsRaises
    \/ TransformAppointments
    \/ TransformAppointmentsRaises

Spec == Init /\ [][Next]_vars

\* A stand-alone call of the loader, as the last load of run_pipeline makes
\* it: any frame of at most MaxLoad ServiceAppointment records, and a target
\* system that may reject any of the create calls with either exception.
AppointmentRecord(id) ==
    [EHR_Appointment_Id__c |-> id, ParentRecordId |-> 1,
     Service_Resource__c |-> 1, ContactId |-> 1, ServiceTerritoryId |-> None,
     WorkTypeId |-> 1, SchedStartTime |-> TextOf(15, 14, 0, 1),
     SchedEndTime |-> TextOf(15, 14, 30, 1), Status |-> "Scheduled"]
AppointmentRecordColumns == DOMAIN AppointmentRecord(1)

InitLoader ==
    /\ pc = "LoadServiceAppointment"
    /\ trace = <<StageOf("LoadServiceAppointment")>>
    /\ ehr = [Location |-> <<>>, PractitionerRole |-> <<>>, Patient |-> <<>>,
              Appointment |-> <<>>]
    /\ sf = TargetWithContacts(0, TRUE)
    /\ \E n \in 0..MaxLoad :
          \E ids \in [1..n -> 1..2] :
             sf_appointments_df =
                [columns |-> AppointmentRecordColumns,
                 rows |-> [i \in 1..n |-> AppointmentRecord(ids[i])]]
    /\ faults \in [1..MaxLoad -> Exceptions]
    /\ InitLocals
    /\ appointments_df = NoFrame
    /\ sf_id_maps = NoMaps

NextLoader ==
    \/ LoadEmpty
    \/ LoadBegin
    \/ CreateReturns
    \/ CreateRaises
    \/ LoadReturn

SpecLoader == InitLoader /\ [][NextLoader]_vars

\* A stand-alone appointment resolution and load, as run_pipeline makes them
\* after build_sf_id_maps: the target system is empty or holds an account for
\* patient 1, resources for practitioners 1 and 2, a contact for
\* practitioner 1 only, an active territory for location 1 and the first
\* work type; the appointments refer to patients and practitioners 1 and 2,
\* to location 1 or none and to the first work type or none.
PopulatedTarget ==
    [records |->
        [o \in SObjects |->
            CASE o = "Account" -> <<[Id |-> 11, EHR_Patient_Id__c |-> 1]>>
              [] o = "ServiceResource" ->
                    <<[Id |-> 21, EHR_Resource_Id__c |-> 1,
                       Name |-> FullName(1, 1), IsActive |-> TRUE],
                      [Id |-> 22, EHR_Resource_Id__c |-> 2,
                       Name |-> FullName(2, 2), IsActive |-> TRUE]>>
              [] o = "Contact" -> <<[Id |-> 31, Name |-> FullName(1, 1)]>>
              [] o = "ServiceTerritory" ->
                    <<[Id |-> 41, EHR_Location_Id__c |-> 1,
                       IsActive |-> TRUE]>>
              [] o = "WorkType" ->
                    <<[Id |-> 51,
                       EHR_Work_Type_Id__c |-> WORK_TYPES[1].code]>>
              [] OTHER -> <<>>],
     nextId |-> 61,
     territoryActive |-> TRUE]

AppointmentPool(id) ==
    {[appointment_id |-> id, patient_id |-> p, practitioner_id |-> r,
      location_id |-> l, work_type_code |-> w, status |-> "booked",
      start |-> TextOf(15, 9, 0, 1), end |-> TextOf(15, 9, 30, 1)] :
        p \in 1..2, r \in 1..2, l \in {1, None},
        w \in {WORK_TYPES[1].code, None}}

InitResolve ==
    /\ pc = "TransformAppointments"
    /\ trace = <<StageOf("TransformAppointments")>>
    /\ ehr = [Location |-> <<>>, PractitionerRole |-> <<>>, Patient |-> <<>>,
              Appointment |-> <<>>]
    /\ sf \in {PopulatedTarget, TargetWithContacts(0, TRUE)}
    /\ sf_id_maps = build_sf_id_maps(sf)
    /\ \E n \in 0..MaxAppointments :
          \E rows \in [1..n -> UNION {AppointmentPool(i) : i \in 1..n}] :
             /\ \A i \in 1..n : rows[i].appointment_id = i
             /\ appointments_df = DataFrame(rows)
    /\ faults = [k \in 1..MaxFailures |-> ExceptionList[((k - 1) % 2) + 1]]
    /\ InitLocals
    /\ sf_appointments_df = NoFrame

NextResolve ==
    \/ TransformAppointments
    \/ TransformAppointmentsRaises
    \/ LoadEmpty
    \/ LoadBegin
    \/ CreateReturns
    \/ CreateRaises
    \/ LoadReturn

SpecResolve == InitResolve /\ [][NextResolve]_vars

\* -------------------------------------------------------------- properties
\* The create calls made for object type o so far, in order.
Creates(o) == SelectSeq(calls, LAMBDA c : c.op = "create" /\ c.object = o)

\* Whether the load of object type o went through its loop and returned.
Completed(o) == results[o].status = "Job completed successfully."

\* C1: for a non-empty submitted sequence and any outcomes of the create
\* calls, the returned result has success_count + failure_count equal to the
\* number of records submitted; the 'index' values of successful_records and
\* the 'record_index' values of failed_records are disjoint, unique and
\* together exactly 0..n-1; each is the position of the record it reports in
\* the submitted sequence (the record and the outcome of the create call
\* made at that position); and each list is in ascending order.
C1_ResultIndicesCoverPositions ==
    \A p \in LoadPoints :
        LET r == results[LoadObject(p)]
            submitted == LoadFrame(p).rows
            made == Creates(LoadObject(p))
            ok == r.successful_records
            ko == r.failed_records
            S == {ok[k].index : k \in DOMAIN ok}
            F == {ko[k].record_index : k \in DOMAIN ko}
        IN Completed(LoadObject(p)) =>
            /\ r.success_count + r.failure_count = Len(submitted)
            /\ S \cap F = {}
            /\ S \cup F = 0..(Len(submitted) - 1)
            /\ Cardinality(S) = Len(ok)
            /\ Cardinality(F) = Len(ko)
            /\ \A k \in DOMAIN ok :
                  /\ ok[k].original_data = submitted[ok[k].index + 1]
                  /\ made[ok[k].index + 1].ok
                  /\ made[ok[k].index + 1].id = ok[k].sf_id
            /\ \A k \in DOMAIN ko :
                  /\ ko[k].record_data = submitted[ko[k].record_index + 1]
                  /\ ~made[ko[k].record_index + 1].ok
            /\ \A k, l \in DOMAIN ok : k < l => ok[k].index < ok[l].index
            /\ \A k, l \in DOMAIN ko :
                  k < l => ko[k].record_index < ko[l].record_index

\* A load of more than two records returned with a success and a failure.
C1_Witness ==
    /\ Completed("ServiceAppointment")
    /\ Len(sf_appointments_df.rows) > 2
    /\ results["ServiceAppointment"].success_count > 0
    /\ results["ServiceAppointment"].failure_count > 0
    /\ results["ServiceAppointment"].successful_records[1].index > 0

\* C2: the loader issues exactly one create call per submitted record, in
\* submitted order; when the create call for record i raises, the exception
\* does not end the run, record i is in failed_records with the exception's
\* string as its error detail, and every later record is still attempted.
C2_OneCreatePerRecordFailuresRecorded ==
    /\ raised \notin Exceptions
    /\ ld.active =>
          LET made == Creates(ld.sf_object_name)
          IN /\ Len(made) = ld.i
             /\ \A k \in DOMAIN made : made[k].record = ld.records_to_load[k]
    /\ \A p \in LoadPoints :
          LET r == results[LoadObject(p)]
              submitted == LoadFrame(p).rows
              made == Creates(LoadObject(p))
          IN Completed(LoadObject(p)) =>
                /\ Len(made) = Len(submitted)
                /\ \A k \in DOMAIN made : made[k].record = submitted[k]
                /\ \A k \in DOMAIN made :
                      ~made[k].ok =>
                         \E f \in DOMAIN r.failed_records :
                            /\ r.failed_records[f].record_index = k - 1
                            /\ r.failed_records[f].errors = made[k].error
                            /\ r.failed_records[f].record_data = submitted[k]

\* A load returned in which a create call raised and the create call for
\* the next record was made and succeeded.
C2_Witness ==
    /\ Completed("ServiceAppointment")
    /\ pc = "Done"
    /\ \E k \in DOMAIN Creates("ServiceAppointment") :
          /\ ~Creates("ServiceAppointment")[k].ok
          /\ k + 1 \in DOMAIN Creates("ServiceAppointment")
          /\ Creates("ServiceAppointment")[k + 1].ok

\* transform_appointments_for_sf has returned its frame to run_pipeline.
Resolved == raised = "" /\ pc \in {"LoadServiceAppointment", "Done"}

\* Whether the maps have an entry for appointment a's patient, practitioner
\* (in practitioner_details), work type and location.
PatientMapped(a) == a.patient_id \in DOMAIN sf_id_maps.patient_to_account
PractitionerMapped(a) ==
    a.practitioner_id \in DOMAIN sf_id_maps.practitioner_details
WorkTypeMapped(a) ==
    a.work_type_code \in DOMAIN sf_id_maps.worktype_code_to_id
LocationMapped(a) ==
    a.location_id \in DOMAIN sf_id_maps.location_to_territory

\* Whether appointment a is in the frame transform_appointments_for_sf
\* returned.
Kept(a) ==
    \E k \in DOMAIN sf_appointments_df.rows :
        sf_appointments_df.rows[k].EHR_Appointment_Id__c = a.appointment_id

\* C3: an appointment is in the output of transform_appointments_for_sf if
\* and only if its patient_id is a key of patient_to_account, its
\* practitioner_id a key of practitioner_details and its work_type_code a key
\* of worktype_code_to_id; the output holds nothing else.
C3_KeptIffAllRequiredMapped ==
    Resolved =>
        /\ \A i \in DOMAIN appointments_df.rows :
              LET a == appointments_df.rows[i]
              IN Kept(a) <=>
                    (PatientMapped(a) /\ PractitionerMapped(a)
                        /\ WorkTypeMapped(a))
        /\ \A k \in DOMAIN sf_appointments_df.rows :
              \E i \in DOMAIN appointments_df.rows :
                 appointments_df.rows[i].appointment_id =
                    sf_appointments_df.rows[k].EHR_Appointment_Id__c

\* The resolution kept one appointment and dropped another.
C3_Witness ==
    /\ Resolved
    /\ \E i, j \in DOMAIN appointments_df.rows :
          Kept(appointments_df.rows[i]) /\ ~Kept(appointments_df.rows[j])

\* C4 as claimed: every dropped appointment has all of its required foreign
\* keys (patient, practitioner details, work type) unmapped.
C4_DroppedHaveEveryRequiredUnmapped ==
    Resolved =>
        \A i \in DOMAIN appointments_df.rows :
            LET a == appointments_df.rows[i]
            IN ~Kept(a) =>
                  (~PatientMapped(a) /\ ~PractitionerMapped(a)
                      /\ ~WorkTypeMapped(a))

\* C4 as amended: every dropped appointment has at least one required
\* foreign-key field (ParentRecordId, Service_Resource__c, ContactId,
\* WorkTypeId) without a value after the lookups in the supplied maps.
C4_DroppedHaveSomeRequiredUnmapped ==
    Resolved =>
        \A i \in DOMAIN appointments_df.rows :
            LET a == appointments_df.rows[i]
            IN ~Kept(a) =>
                  \E c \in {"ParentRecordId", "Service_Resource__c",
                            "ContactId", "WorkTypeId"} :
                     AppointmentMapped(a, sf_id_maps)[c] = None

\* An appointment was dropped whose patient and work type are mapped and
\* whose practitioner is not.
C4_Witness ==
    /\ Resolved
    /\ \E i \in DOMAIN appointments_df.rows :
          LET a == appointments_df.rows[i]
          IN ~Kept(a) /\ PatientMapped(a) /\ WorkTypeMapped(a)
                /\ ~PractitionerMapped(a)

\* C5: an appointment whose location has no entry in location_to_territory
\* and whose patient, practitioner details and work type are mapped is in
\* the output with ServiceTerritoryId missing, and once the ServiceAppointment
\* load has returned a create call was made with that record.
C5_UnmappedLocationStillLoaded ==
    Resolved =>
        \A i \in DOMAIN appointments_df.rows :
            LET a == appointments_df.rows[i]
            IN (PatientMapped(a) /\ PractitionerMapped(a) /\ WorkTypeMapped(a)
                    /\ ~LocationMapped(a)) =>
                  /\ \E k \in DOMAIN sf_appointments_df.rows :
                        /\ sf_appointments_df.rows[k].EHR_Appointment_Id__c
                              = a.appointment_id
                        /\ sf_appointments_df.rows[k].ServiceTerritoryId = None
                  /\ pc = "Done" =>
                        \E k \in DOMAIN Creates("ServiceAppointment") :
                           LET c == Creates("ServiceAppointment")[k]
                           IN /\ c.record.EHR_Appointment_Id__c
                                    = a.appointment_id
                              /\ c.record.ServiceTerritoryId = None

\* The run is over and a ServiceAppointment without a territory was created
\* for an appointment whose location is unmapped.
C5_Witness ==
    /\ pc = "Done"
    /\ \E i \in DOMAIN appointments_df.rows :
          /\ ~LocationMapped(appointments_df.rows[i])
          /\ \E k \in DOMAIN Creates("ServiceAppointment") :
                LET c == Creates("ServiceAppointment")[k]
                IN /\ c.ok
                   /\ c.record.EHR_Appointment_Id__c
                         = appointments_df.rows[i].appointment_id
                   /\ c.record.ServiceTerritoryId = None

\* Whether the run has entered the given stage.
Entered(stage) == \E k \in DOMAIN trace : trace[k] = stage

\* The emails of the User records the Wave-1 User load created.
CreatedUserEmails ==
    {results["User"].successful_records[k].original_data.Email :
        k \in DOMAIN results["User"].successful_records}

\* The providers whose email is not among them.
ProvidersWithoutUser ==
    {i \in DOMAIN providers_df.rows :
        providers_df.rows[i].email \notin CreatedUserEmails}

\* C6: a provider is excluded from the Wave-2 ServiceResource load set if and
\* only if its email is not the Email of a User record the Wave-1 load
\* created, and the skip count (input count minus output count) is the
\* number of such providers.
C6_ExcludedIffNoCreatedUser ==
    Entered("LoadWave2") =>
        /\ \A i \in DOMAIN providers_df.rows :
              (i \in ProvidersWithoutUser) <=>
                 ~\E k \in DOMAIN sf_sresources_df.rows :
                     sf_sresources_df.rows[k].EHR_Resource_Id__c
                        = providers_df.rows[i].practitioner_id
        /\ records_skipped(providers_df, user_id_map)
              = Cardinality(ProvidersWithoutUser)
        /\ Len(providers_df.rows) - Len(sf_sresources_df.rows)
              = Cardinality(ProvidersWithoutUser)

\* The Wave-2 load set holds one provider and leaves out another.
C6_Witness ==
    /\ Entered("LoadWave2")
    /\ ProvidersWithoutUser # {}
    /\ Len(sf_sresources_df.rows) > 0

\* The stage sequence of the orchestrator as the specification gives it.
StageOrder ==
    <<"Extract", "NormalizeIndependent", "LoadWave1", "BuildMap(v1)",
      "ResolveWave2", "LoadWave2", "BuildMap(v2)", "ResolveAppointments",
      "LoadWave3", "Done">>
StageIndex(stage) == CHOOSE i \in DOMAIN StageOrder : StageOrder[i] = stage

Wave1Objects == {"ServiceTerritory", "User", "Account", "WorkType"}
Submitted(o) == LoadFrame(CHOOSE p \in LoadPoints : LoadObject(p) = o).rows
IsCreate(k, objects) ==
    calls[k].op = "create" /\ calls[k].object \in objects
IsQuery(k) == calls[k].op = "query_all"

\* C8: every Wave-1 create call was made and has returned before the first
\* ServiceResource create call; every ServiceResource create call was made
\* and has returned before the first query of the map build; and the five
\* queries of the map build have returned before any ServiceAppointment
\* create call.
C8_WavesCompleteBeforeDependents ==
    LET W1 == {k \in DOMAIN calls : IsCreate(k, Wave1Objects)}
        SR == {k \in DOMAIN calls : IsCreate(k, {"ServiceResource"})}
        SA == {k \in DOMAIN calls : IsCreate(k, {"ServiceAppointment"})}
        Q  == {k \in DOMAIN calls : IsQuery(k)}
    IN /\ \A i \in W1, j \in SR : i < j
       /\ SR # {} =>
             \A o \in Wave1Objects : Len(Creates(o)) = Len(Submitted(o))
       /\ \A i \in W1 \cup SR, j \in Q : i < j
       /\ Q # {} =>
             /\ Len(Creates("ServiceResource"))
                   = Len(Submitted("ServiceResource"))
             /\ \A o \in Wave1Objects : Len(Creates(o)) = Len(Submitted(o))
       /\ \A j \in SA :
             Cardinality({i \in Q : i < j /\ calls[i].ok}) = Len(MapQueries)

\* Create calls of all three waves were made, one of them rejected.
C8_Witness ==
    /\ \E k \in DOMAIN calls : IsCreate(k, {"ServiceAppointment"})
    /\ \E k \in DOMAIN calls : IsCreate(k, {"ServiceResource"})
    /\ \E k \in DOMAIN calls : IsCreate(k, Wave1Objects) /\ ~calls[k].ok

\* C9: whatever create calls fail and whatever mappings are missing, a run
\* in which no extract call and no query raises is never ended by an
\* exception (it goes on through the stages to Done).
C9_OnlyExtractOrQueryFailureEndsRun ==
    pc = "Aborted" => raised \in {"HTTPError", "SalesforceError"}

\* C10: once a query of build_sf_id_maps has raised, the run is over without
\* having reached Done, no ServiceAppointment create call has been made, and
\* every record a create call returned an identifier for is still in the
\* target system, as created.
C10_QueryFailureEndsRunKeepingRecords ==
    raised = "SalesforceError" =>
        /\ pc = "Aborted"
        /\ ~Entered("Done")
        /\ ~Entered("LoadWave3")
        /\ \A k \in DOMAIN calls : ~IsCreate(k, {"ServiceAppointment"})
        /\ \A k \in DOMAIN calls :
              (calls[k].op = "create" /\ calls[k].ok) =>
                 \E n \in DOMAIN sf.records[calls[k].object] :
                    sf.records[calls[k].object][n]
                       = Stored(calls[k].id, calls[k].record,
                                calls[k].object, sf)

\* A query of the map build raised after records had been created.
C10_Witness ==
    /\ raised = "SalesforceError"
    /\ \E k \in DOMAIN calls :
          IsCreate(k, {"ServiceResource"}) /\ calls[k].ok

\* ------------------------------------------------------- empty record set
\* C11: a loader call on an empty record set returns success_count = 0 and
\* failure_count = 0, and no call at all has been made on the target
\* connection, whose content is as it was before the call.
C11_EmptyLoadMakesNoCall ==
    (pc = "Done" /\ Empty(sf_appointments_df)) =>
        /\ results["ServiceAppointment"].success_count = 0
        /\ results["ServiceAppointment"].failure_count = 0
        /\ results["ServiceAppointment"].successful_records = <<>>
        /\ calls = <<>>
        /\ sf = TargetWithContacts(0, TRUE)

\* The loader has returned from a call with no records.
C11_Witness ==
    /\ pc = "Done"
    /\ Empty(sf_appointments_df)
    /\ results["ServiceAppointment"] = EmptyResult

\* ---------------------------------------------- resources without contact
\* Whether build_sf_id_maps has returned in this run.
MapsBuilt == Entered("ResolveAppointments")

\* The queried ServiceResource records whose Name is no queried Contact's
\* Name.
ResourcesWithoutContact ==
    {n \in DOMAIN resource_query(sf) :
        \A c \in DOMAIN contact_query(sf) :
            contact_query(sf)[c].Name # resource_query(sf)[n].Name}

\* C12: once build_sf_id_maps has returned, a queried ServiceResource whose
\* Name is no queried Contact's Name is the Service_Resource__c of no
\* practitioner_details entry, while the build did not raise and the other
\* tables hold their entries (that resource included, in
\* practitioner_to_resource and resource_name_to_id); and an appointment
\* whose practitioner_id is no key of practitioner_details is not in the
\* output of transform_appointments_for_sf and is never the record of a
\* create call.
C12_UnmatchedResourceSkippedAppointmentDropped ==
    MapsBuilt =>
        /\ raised # "SalesforceError"
        /\ \A n \in ResourcesWithoutContact :
              LET rec == resource_query(sf)[n]
              IN /\ \A k \in DOMAIN sf_id_maps.practitioner_details :
                        sf_id_maps.practitioner_details[k].Service_Resource__c
                           # rec.Id
                 /\ rec.EHR_Resource_Id__c
                       \in DOMAIN sf_id_maps.practitioner_to_resource
                 /\ rec.Name \in DOMAIN sf_id_maps.resource_name_to_id
        /\ DOMAIN sf_id_maps.patient_to_account =
              {account_query(sf)[n].EHR_Patient_Id__c :
                  n \in DOMAIN account_query(sf)}
        /\ DOMAIN sf_id_maps.location_to_territory =
              {territory_query(sf)[n].EHR_Location_Id__c :
                  n \in DOMAIN territory_query(sf)}
        /\ DOMAIN sf_id_maps.worktype_code_to_id =
              {worktype_query(sf)[n].EHR_Work_Type_Id__c :
                  n \in DOMAIN worktype_query(sf)}
        /\ \A i \in DOMAIN appointments_df.rows :
              LET a == appointments_df.rows[i]
              IN ~PractitionerMapped(a) =>
                    /\ Resolved => ~Kept(a)
                    /\ \A k \in DOMAIN calls :
                          IsCreate(k, {"ServiceAppointment"}) =>
                             calls[k].record.EHR_Appointment_Id__c
                                # a.appointment_id

\* The run is over: a resource had no contact, the appointment of its
\* practitioner was not submitted and another appointment was created.
C12_Witness ==
    /\ pc = "Done"
    /\ ResourcesWithoutContact # {}
    /\ \E i \in DOMAIN appointments_df.rows :
          /\ ~PractitionerMapped(appointments_df.rows[i])
          /\ \E n \in ResourcesWithoutContact :
                resource_query(sf)[n].EHR_Resource_Id__c
                   = appointments_df.rows[i].practitioner_id
    /\ \E k \in DOMAIN calls :
          IsCreate(k, {"ServiceAppointment"}) /\ calls[k].ok

\* ------------------------------------------------- map after Wave-1 loads
\* The successful create calls of object type o, as source identifier (the
\* record's field f) and identifier assigned.
CreatedIds(o, f) ==
    {<<calls[k].record[f], calls[k].id>> :
        k \in {n \in DOMAIN calls : IsCreate(n, {o}) /\ calls[n].ok}}

\* Whether table m of the maps holds exactly the given pairs.
Exposes(m, pairs) ==
    /\ DOMAIN sf_id_maps[m] = {p[1] : p \in pairs}
    /\ \A p \in pairs : sf_id_maps[m][p[1]] = p[2]

\* C13: in a run that started on a target system without records, once
\* build_sf_id_maps has returned, location_to_territory, patient_to_account
\* and worktype_code_to_id hold exactly the identifiers the successful
\* ServiceTerritory, Account and WorkType create calls of the run returned,
\* each under the source identifier of its record.
C13_MapExposesCreatedIdentifiers ==
    (MapsBuilt /\ sf.records["Contact"] = <<>>) =>
        /\ Exposes("location_to_territory",
                   CreatedIds("ServiceTerritory", "EHR_Location_Id__c"))
        /\ Exposes("patient_to_account",
                   CreatedIds("Account", "EHR_Patient_Id__c"))
        /\ Exposes("worktype_code_to_id",
                   CreatedIds("WorkType", "EHR_Work_Type_Id__c"))

\* ------------------------------------------- repeated calls of the mapper
\* The most operations (calls of build_sf_id_maps and creates between them)
\* of a behaviour of the repeated-call specification.
MaxOperations == 3

\* What a call of build_sf_id_maps returns when an earlier call returned
\* previous: the function starts from sf_id_maps = {} and fills it from the
\* results of this call's queries; nothing of an earlier call is kept.
CachedMaps(previous, target) ==
    IF previous # NoMaps THEN previous ELSE build_sf_id_maps(target)
FreshMaps(previous, target) == build_sf_id_maps(target)

\* The records a caller may create between two calls of the mapper: with
\* and without the source identifier, active and inactive, and a
\* ServiceResource of a practitioner under another last name.
CreatePool(obj) ==
    CASE obj = "Account" ->
            {[Name |-> p, EHR_Patient_Id__c |-> p] : p \in {None, 1, 2}}
      [] obj = "ServiceResource" ->
            {[Name |-> FullName(r, r), EHR_Resource_Id__c |-> r,
              IsActive |-> b] : r \in {1, 2}, b \in BOOLEAN}
            \cup {[Name |-> FullName(r, 3), EHR_Resource_Id__c |-> r,
                    IsActive |-> TRUE] : r \in {1, 2}}
      [] obj = "Contact" -> {[Name |-> FullName(2, 2)]}
      [] obj = "ServiceTerritory" ->
            {[Name |-> 2, EHR_Location_Id__c |-> 2]}
      [] obj = "WorkType" ->
            {[Name |-> WORK_TYPES[2].display,
              EHR_Work_Type_Id__c |-> WORK_TYPES[2].code]}

\* The calls of build_sf_id_maps and the creates made so far.
Operations ==
    Cardinality({k \in DOMAIN calls :
                    \/ calls[k].op = "create"
                    \/ calls[k].object = MapQueries[1]})

\* build_sf_id_maps(sf) is called (again) and returns.
CallBuildSfIdMaps ==
    /\ pc = "BuildSfIdMaps"
    /\ Operations < MaxOperations
    /\ sf_id_maps' = FreshMaps(sf_id_maps, sf)
    /\ calls' = calls \o [k \in DOMAIN MapQueries |->
                              QueryCall(MapQueries[k], TRUE)]
    /\ UNCHANGED <<fetch, pc, trace, raised, ehr, sf, faults, extracted, wave1,
                   sf_sresources_df, sf_appointments_df, results,
                   user_id_map, ld>>

\* A record is created on the connection between two calls of the mapper.
CreateBetweenCalls ==
    /\ pc = "BuildSfIdMaps"
    /\ Operations < MaxOperations
    /\ \E obj \in {"Account", "ServiceResource", "Contact",
                   "ServiceTerritory", "WorkType"} :
          \E record \in CreatePool(obj) :
             /\ sf' = Created(sf, obj, record)
             /\ calls' = Append(calls,
                                CreateCall(obj, record, TRUE, sf.nextId, ""))
    /\ UNCHANGED <<fetch, pc, trace, raised, ehr, faults, extracted, wave1,
                   sf_sresources_df, sf_appointments_df, results,
                   user_id_map, sf_id_maps, ld>>

InitSnapshot ==
    /\ pc = "BuildSfIdMaps"
    /\ trace = <<StageOf("BuildSfIdMaps")>>
    /\ ehr = [Location |-> <<>>, PractitionerRole |-> <<>>, Patient |-> <<>>,
              Appointment |-> <<>>]
    /\ \/ sf = PopulatedTarget
       \/ \E active \in BOOLEAN : sf = TargetWithContacts(1, active)
    /\ faults = <<>>
    /\ InitLocals
    /\ appointments_df = NoFrame
    /\ sf_appointments_df = NoFrame
    /\ sf_id_maps = NoMaps

NextSnapshot ==
    \/ CallBuildSfIdMaps
    \/ CreateBetweenCalls

SpecSnapshot == InitSnapshot /\ [][NextSnapshot]_vars

\* The table of the maps filled from the records of object type o, the field
\* that gives its keys, and the records the query for o returns now.
TableOf(o) ==
    CASE o = "Account"          -> "patient_to_account"
      [] o = "ServiceResource"  -> "practitioner_to_resource"
      [] o = "ServiceTerritory" -> "location_to_territory"
      [] o = "WorkType"         -> "worktype_code_to_id"
KeyOf(o) ==
    CASE o = "Account"          -> "EHR_Patient_Id__c"
      [] o = "ServiceResource"  -> "EHR_Resource_Id__c"
      [] o = "ServiceTerritory" -> "EHR_Location_Id__c"
      [] o = "WorkType"         -> "EHR_Work_Type_Id__c"
VisibleNow(o) ==
    CASE o = "Account"          -> account_query(sf)
      [] o = "ServiceResource"  -> resource_query(sf)
      [] o = "ServiceTerritory" -> territory_query(sf)
      [] o = "WorkType"         -> worktype_query(sf)
QueriedObjects == {"Account", "ServiceResource", "ServiceTerritory", "WorkType"}

\* Whether the last thing done on the connection was a call of
\* build_sf_id_maps.
JustBuilt == calls # <<>> /\ calls[Len(calls)].op = "query_all"

\* Whether table TableOf(o) of the maps is the snapshot of the records
\* visible now: its keys are the keys of the visible records, and each key
\* gives the identifier of the last visible record that carries it.
IsSnapshot(o) ==
    LET q == VisibleNow(o)
    IN /\ DOMAIN sf_id_maps[TableOf(o)] = {q[n][KeyOf(o)] : n \in DOMAIN q}
       /\ \A n \in DOMAIN q :
             (\A m \in DOMAIN q : m > n => q[m][KeyOf(o)] # q[n][KeyOf(o)])
                => sf_id_maps[TableOf(o)][q[n][KeyOf(o)]] = q[n].Id

\* Whether every record a successful create call stored and that the query
\* for its object type returns is in the maps: under its key the table
\* holds its identifier, or that of a record with the same key created
\* after it.
CreatedVisibleInMaps ==
    \A k \in DOMAIN calls :
        (calls[k].op = "create" /\ calls[k].ok
            /\ calls[k].object \in QueriedObjects) =>
           LET o == calls[k].object
               q == VisibleNow(o)
           IN \A n \in DOMAIN q :
                 q[n].Id = calls[k].id =>
                    /\ q[n][KeyOf(o)] \in DOMAIN sf_id_maps[TableOf(o)]
                    /\ sf_id_maps[TableOf(o)][q[n][KeyOf(o)]] >= calls[k].id

UserCreated(email, id) ==
    \E j \in DOMAIN calls :
        /\ IsCreate(j, {"User"})
        /\ calls[j].ok
        /\ calls[j].record.Email = email
        /\ calls[j].id = id

\* C15: the record of every ServiceResource create call carries as
\* RelatedRecordId the identifier a successful User create call of the same
\* run returned for the Email of the provider the record was built from;
\* every entry of the email lookup is such an (Email, identifier) pair of the
\* User load, and no call on the target ever queries User.
C15_RelatedRecordIdFromUserLoad ==
    /\ \A k \in DOMAIN calls :
          IsCreate(k, {"ServiceResource"}) =>
             \E i \in DOMAIN providers_df.rows :
                /\ providers_df.rows[i].practitioner_id
                      = calls[k].record.EHR_Resource_Id__c
                /\ UserCreated(providers_df.rows[i].email,
                               calls[k].record.RelatedRecordId)
    /\ \A e \in DOMAIN user_id_map : UserCreated(e, user_id_map[e])
    /\ \A k \in DOMAIN calls : IsQuery(k) => calls[k].object # "User"
    /\ \A k \in DOMAIN sf_sresources_df.rows :
          \E e \in DOMAIN user_id_map :
             user_id_map[e] = sf_sresources_df.rows[k].RelatedRecordId

\* A ServiceResource was created whose RelatedRecordId is the identifier the
\* User create call for its provider returned, in a run where the target
\* held records before the run.
C15_Witness ==
    /\ sf.records["Contact"] # <<>>
    /\ \E k \in DOMAIN calls :
          /\ IsCreate(k, {"ServiceResource"})
          /\ calls[k].ok
          /\ \E j \in 1..(k - 1) :
                /\ IsCreate(j, {"User"})
                /\ calls[j].ok
                /\ calls[j].id = calls[k].record.RelatedRecordId

\* ------------------------------------------- payloads without a reference
\* Runs of run_pipeline on a source system with one location, one
\* practitioner role and one patient (or no location), and at most one
\* Appointment payload, which carries any subset of its three participant
\* references.
InitNormalize ==
    /\ pc = "Extract"
    /\ trace = <<StageOf("Extract")>>
    /\ \E nl \in 0..1, na \in 0..1 :
          \E kinds \in SUBSET {"Patient", "Practitioner", "Location"} :
             ehr = [Location |-> Locations(nl),
                    PractitionerRole |-> PractitionerRoles(1),
                    Patient |-> Patients(1),
                    Appointment |->
                       [i \in 1..na |->
                          [Appointments(na)[i] EXCEPT
                             !.participant =
                                SelectSeq(@, LAMBDA p : p.kind \in kinds)]]]
    /\ \E nc \in 0..1 : sf = TargetWithContacts(nc, TRUE)
    /\ faults = [k \in 1..MaxFailures |-> ExceptionList[((k - 1) % 2) + 1]]
    /\ InitLocals
    /\ appointments_df = NoFrame
    /\ sf_appointments_df = NoFrame
    /\ sf_id_maps = NoMaps

SpecNormalize == InitNormalize /\ [][Next]_vars

\* The Appointment payloads that lack the participant reference for the
\* patient, the practitioner or the location.
IncompletePayloads ==
    {i \in DOMAIN ehr.Appointment :
        \E kind \in {"Patient", "Practitioner", "Location"} :
            ParticipantId(ehr.Appointment[i].participant, kind) = None}

\* C16: when an Appointment payload lacks a participant reference for the
\* patient, the practitioner or the location, normalization fails with a
\* ValidationError: no row with a missing foreign reference is ever in
\* appointments_df, and once the extract calls have returned the run is
\* over, ended by that error.
C16_MissingReferenceFailsNormalization ==
    (IncompletePayloads # {} /\ raised # "HTTPError") =>
        /\ \A i \in DOMAIN appointments_df.rows :
              /\ appointments_df.rows[i].patient_id # None
              /\ appointments_df.rows[i].practitioner_id # None
              /\ appointments_df.rows[i].location_id # None
        /\ pc # "Extract" => (pc = "Aborted" /\ raised = "ValidationError")

\* ------------------------------------------------------ source identifiers
\* The field of a target record that is dedicated to the source-system
\* identifier, per object type; the User record has none.
SourceIdField(o) ==
    CASE o = "ServiceTerritory"   -> "EHR_Location_Id__c"
      [] o = "Account"            -> "EHR_Patient_Id__c"
      [] o = "WorkType"           -> "EHR_Work_Type_Id__c"
      [] o = "ServiceResource"    -> "EHR_Resource_Id__c"
      [] o = "ServiceAppointment" -> "EHR_Appointment_Id__c"
      [] OTHER                    -> "none"
SourceIdFields ==
    {SourceIdField(o) : o \in LoadObjects \ {"User"}}

\* The source identifiers of the entities the records of object type o are
\* built from.
SourceIds(o) ==
    CASE o = "ServiceTerritory" ->
            {locations_df.rows[i].location_id : i \in DOMAIN locations_df.rows}
      [] o = "Account" ->
            {patients_df.rows[i].patient_id : i \in DOMAIN patients_df.rows}
      [] o = "WorkType" -> {WORK_TYPES[i].code : i \in DOMAIN WORK_TYPES}
      [] o = "ServiceResource" ->
            {providers_df.rows[i].practitioner_id :
                i \in DOMAIN providers_df.rows}
      [] o = "ServiceAppointment" ->
            {appointments_df.rows[i].appointment_id :
                i \in DOMAIN appointments_df.rows}
      [] OTHER -> {}

\* Whether the record of create call k carries, in the field dedicated to
\* it, the source identifier of an entity of its type.
CarriesSourceId(k) ==
    /\ SourceIdField(calls[k].object) \in DOMAIN calls[k].record
    /\ calls[k].record[SourceIdField(calls[k].object)]
          \in SourceIds(calls[k].object)

\* C17 as claimed: the record of every create call, of each of the six
\* object types, carries the source identifier of its entity in a dedicated
\* field.
C17_EveryRecordCarriesSourceId ==
    \A k \in DOMAIN calls : IsCreate(k, LoadObjects) => CarriesSourceId(k)

\* C17 as amended: the record of every ServiceTerritory, Account, WorkType,
\* ServiceResource and ServiceAppointment create call carries the source
\* identifier of its entity in its EHR_..._Id__c field; the record of a User
\* create call has no field for the source identifier and carries the
\* provider's email, by which the run matches it after the load.
C17_EveryRecordButUserCarriesSourceId ==
    \A k \in DOMAIN calls :
        /\ IsCreate(k, LoadObjects \ {"User"}) => CarriesSourceId(k)
        /\ IsCreate(k, {"User"}) =>
              /\ DOMAIN calls[k].record \cap SourceIdFields = {}
              /\ \E i \in DOMAIN providers_df.rows :
                    providers_df.rows[i].email = calls[k].record.Email

\* The run is over and records of all six object types were created.
C17_Witness ==
    /\ pc = "Done"
    /\ \A o \in LoadObjects :
          \E k \in DOMAIN calls : IsCreate(k, {o}) /\ calls[k].ok

\* --------------------------------------------- status and timestamp fields
\* The status values and the start / end texts of the appointments of the
\* field specification: the three translated statuses and two others; no
\* text, a text that is no timestamp, a timestamp without 'Z', and wall-clock
\* times in winter, in summer late in the evening, and before, in and after
\* the hour New York's clocks skip (March 9) and repeat (November 2).
SourceStatuses == {"booked", "cancelled", "fulfilled", "no-show", "arrived"}
SourceTimes ==
    {None, TextOf(15, 25, 0, 1), TextOf(15, 9, 0, 0), TextOf(15, 9, 0, 1),
     TextOf(196, 23, 30, 1),
     TextOf(68, 1, 30, 1), TextOf(68, 2, 30, 1), TextOf(68, 3, 0, 1),
     TextOf(306, 0, 30, 1), TextOf(306, 1, 30, 1), TextOf(306, 2, 0, 1)}

\* A stand-alone appointment transform and load on the populated target: no
\* appointment, or one appointment of patient 1 with practitioner 1 (mapped)
\* or 2 (no contact), with any of the statuses and texts above.
InitFields ==
    /\ pc = "TransformAppointments"
    /\ trace = <<StageOf("TransformAppointments")>>
    /\ ehr = [Location |-> <<>>, PractitionerRole |-> <<>>, Patient |-> <<>>,
              Appointment |-> <<>>]
    /\ sf = PopulatedTarget
    /\ sf_id_maps = build_sf_id_maps(sf)
    /\ \/ appointments_df = DataFrame(<<>>)
       \/ \E r \in 1..2, status \in SourceStatuses,
             start \in SourceTimes, end \in SourceTimes :
             appointments_df =
                DataFrame(<<[appointment_id |-> 1, patient_id |-> 1,
                             practitioner_id |-> r, location_id |-> 1,
                             work_type_code |-> WORK_TYPES[1].code,
                             status |-> status, start |-> start,
                             end |-> end]>>)
    /\ faults = [k \in 1..MaxFailures |-> ExceptionList[((k - 1) % 2) + 1]]
    /\ InitLocals
    /\ sf_appointments_df = NoFrame

NextFields ==
    \/ TransformAppointments
    \/ TransformAppointmentsRaises
    \/ TransformAppointmentsLocalizeRaises
    \/ LoadEmpty
    \/ LoadBegin
    \/ CreateReturns
    \/ CreateRaises
    \/ LoadReturn

SpecFields == InitFields /\ [][NextFields]_vars

\* Whether the transform ended the run although no wall-clock time of the
\* frame is one that tz_localize rejects and the frame has its columns.
RaisedWithoutCause ==
    /\ pc = "Aborted"
    /\ ~KeyError(appointments_df, AppointmentColumns)
    /\ LocalizeErrors(appointments_df) = {}

\* The row of the output frame built from appointment a, as a set (empty
\* when a was dropped).
OutputOf(a) ==
    {sf_appointments_df.rows[k] : k \in
        {n \in DOMAIN sf_appointments_df.rows :
            sf_appointments_df.rows[n].EHR_Appointment_Id__c
               = a.appointment_id}}

\* Whether the three required lookups of appointment a succeed.
RequiredMapped(a) ==
    PatientMapped(a) /\ PractitionerMapped(a) /\ WorkTypeMapped(a)

\* C18: in the output of transform_appointments_for_sf the status booked has
\* become Scheduled, cancelled Canceled and fulfilled Completed, and any
\* other status is in the Status field unchanged; the status neither makes
\* the transform raise nor decides whether the appointment is kept.
C18_StatusTranslatedOrPassedThrough ==
    /\ ~RaisedWithoutCause
    /\ Resolved =>
          \A i \in DOMAIN appointments_df.rows :
             LET a == appointments_df.rows[i]
             IN /\ RequiredMapped(a) => OutputOf(a) # {}
                /\ \A out \in OutputOf(a) :
                      /\ a.status = "booked" => out.Status = "Scheduled"
                      /\ a.status = "cancelled" => out.Status = "Canceled"
                      /\ a.status = "fulfilled" => out.Status = "Completed"
                      /\ a.status \notin {"booked", "cancelled", "fulfilled"}
                            => out.Status = a.status

\* A ServiceAppointment was created with the status no-show.
C18_Witness ==
    /\ pc = "Done"
    /\ \E k \in DOMAIN calls :
          /\ IsCreate(k, {"ServiceAppointment"})
          /\ calls[k].ok
          /\ calls[k].record.Status = "no-show"

\* Whether a source text is no timestamp (missing, or not parseable).
Malformed(s) == to_datetime(StripZ(s)) = NaT

\* C19: a malformed start or end does not make the transform raise; the
\* appointment's SchedStartTime or SchedEndTime is then missing, and the
\* appointment is in the output whenever its patient, practitioner details
\* and work type are mapped, and is submitted to the loader.
C19_MalformedTimestampKeptAsMissing ==
    /\ ~RaisedWithoutCause
    /\ Resolved =>
          \A i \in DOMAIN appointments_df.rows :
             LET a == appointments_df.rows[i]
             IN (Malformed(a.start) \/ Malformed(a.end)) =>
                   /\ RequiredMapped(a) <=> OutputOf(a) # {}
                   /\ \A out \in OutputOf(a) :
                         /\ Malformed(a.start) <=> out.SchedStartTime = None
                         /\ Malformed(a.end) <=> out.SchedEndTime = None
                   /\ (pc = "Done" /\ RequiredMapped(a)) =>
                         \E k \in DOMAIN calls :
                            /\ IsCreate(k, {"ServiceAppointment"})
                            /\ calls[k].record \in OutputOf(a)

\* A ServiceAppointment was created without SchedStartTime, from an
\* appointment whose start is a text that is no timestamp.
C19_Witness ==
    /\ pc = "Done"
    /\ \E i \in DOMAIN appointments_df.rows :
          /\ appointments_df.rows[i].start # None
          /\ Malformed(appointments_df.rows[i].start)
    /\ \E k \in DOMAIN calls :
          /\ IsCreate(k, {"ServiceAppointment"})
          /\ calls[k].ok
          /\ calls[k].record.SchedStartTime = None

\* A text 'YYYY-MM-DDTHH:MM:SSZ' read back as the UTC instant it names, and
\* that instant on New York's clocks (which show summer time from
\* 2025-03-09 07:00 UTC to 2025-11-02 06:00 UTC).
ParseUtc(s) == to_datetime(StripZ(s))
NewYorkWallClock(u) ==
    IF u >= GapBegin + 300 /\ u < AmbiguousEnd + 240 THEN u - 240 ELSE u - 300

\* C20: when the start and end of every appointment are well-formed, the
\* transform does not raise, and the SchedStartTime and SchedEndTime of each
\* output row, read back as UTC instants and shown on New York's clocks, are
\* the source wall-clock start and end, also for wall-clock times in the
\* hours of the daylight-saving transitions.
C20_RoundTripRecoversWallClock ==
    (\A i \in DOMAIN appointments_df.rows :
        /\ ~Malformed(appointments_df.rows[i].start)
        /\ ~Malformed(appointments_df.rows[i].end)) =>
       /\ raised \notin {"NonExistentTimeError", "AmbiguousTimeError"}
       /\ Resolved =>
             \A i \in DOMAIN appointments_df.rows :
                \A out \in OutputOf(appointments_df.rows[i]) :
                   /\ NewYorkWallClock(ParseUtc(out.SchedStartTime))
                         = to_datetime(StripZ(appointments_df.rows[i].start))
                   /\ NewYorkWallClock(ParseUtc(out.SchedEndTime))
                         = to_datetime(StripZ(appointments_df.rows[i].end))

\* ------------------------------------------------- paged source results
\* A source result is split over a chain of pages (FHIR Bundles): page i
\* has an 'entry' list and, unless it is the last one, a link with relation
\* 'next' to page i + 1.  A url is the number of the page it addresses.
MaxPages == 3
MaxPageSize == 2

RECURSIVE Offset(_, _)
Offset(sizes, i) == IF i = 1 THEN 0 ELSE Offset(sizes, i - 1) + sizes[i - 1]

Bundle(sizes, i) ==
    [entry |-> [k \in 1..sizes[i] |-> Offset(sizes, i) + k],
     next  |-> IF i < Len(sizes) THEN i + 1 ELSE None]

Chain(sizes) == [i \in 1..Len(sizes) |-> Bundle(sizes, i)]

\* The extract operations of the pipeline, the resource type each reads and
\* the client call each makes: patients_to_df and process_appointments go
\* through EHR.get_all_resources, locations_to_df calls EHR.get_resource and
\* providers_to_df calls EHR.get_practitioner_roles.
ExtractOperations ==
    {"locations_to_df", "providers_to_df", "patients_to_df",
     "process_appointments"}

ResourceType(op) ==
    CASE op = "locations_to_df"      -> "Location"
      [] op = "providers_to_df"      -> "PractitionerRole"
      [] op = "patients_to_df"       -> "Patient"
      [] op = "process_appointments" -> "Appointment"

UsesGetAllResources(op) == op \in {"patients_to_df", "process_appointments"}

\* An extract operation is called: its first request will go to the first
\* page of the result.
ExtractCall ==
    /\ raised = ""
    /\ fetch = NoFetch
    /\ \E op \in ExtractOperations :
          fetch' = [NoFetch EXCEPT !.op = op, !.url = 1]
    /\ UNCHANGED <<pc, trace, raised, ehr, sf, calls, faults, extracted,
                   wave1, sf_sresources_df, sf_appointments_df, results,
                   user_id_map, sf_id_maps, ld>>

\* One iteration of the loop of get_all_resources: request the page at url,
\* extend entries with its 'entry' list, and continue with its 'next' link
\* (None when the page has none).
GetAllResourcesRequest ==
    /\ raised = ""
    /\ UsesGetAllResources(fetch.op)
    /\ ~fetch.returned
    /\ fetch.url # None
    /\ LET data == ehr[ResourceType(fetch.op)][fetch.url]
       IN  fetch' = [fetch EXCEPT !.entries = @ \o data.entry,
                                  !.requests = Append(@, fetch.url),
                                  !.url = data.next]
    /\ UNCHANGED <<pc, trace, raised, ehr, sf, calls, faults, extracted,
                   wave1, sf_sresources_df, sf_appointments_df, results,
                   user_id_map, sf_id_maps, ld>>

\* `while url:` finds url None: get_all_resources returns entries.
GetAllResourcesReturn ==
    /\ raised = ""
    /\ UsesGetAllResources(fetch.op)
    /\ ~fetch.returned
    /\ fetch.url = None
    /\ fetch' = [fetch EXCEPT !.returned = TRUE]
    /\ UNCHANGED <<pc, trace, raised, ehr, sf, calls, faults, extracted,
                   wave1, sf_sresources_df, sf_appointments_df, results,
                   user_id_map, sf_id_maps, ld>>

\* get_resource and get_practitioner_roles: one request, whose response is
\* returned; the caller iterates response.get('entry', []) and reads no link.
GetResource ==
    /\ raised = ""
    /\ fetch.op \in ExtractOperations
    /\ ~UsesGetAllResources(fetch.op)
    /\ ~fetch.returned
    /\ LET data == ehr[ResourceType(fetch.op)][fetch.url]
       IN  fetch' = [fetch EXCEPT !.entries = data.entry,
                                  !.requests = <<fetch.url>>,
                                  !.returned = TRUE]
    /\ UNCHANGED <<pc, trace, raised, ehr, sf, calls, faults, extracted,
                   wave1, sf_sresources_df, sf_appointments_df, results,
                   user_id_map, sf_id_maps, ld>>

\* response.raise_for_status() raises on the request about to be made.
RequestRaises ==
    /\ raised = ""
    /\ fetch.op \in ExtractOperations
    /\ ~fetch.returned
    /\ fetch.url # None
    /\ raised' = "HTTPError"
    /\ UNCHANGED <<pc, trace, ehr, sf, calls, faults, extracted, wave1,
                   sf_sresources_df, sf_appointments_df, results,
                   user_id_map, sf_id_maps, ld, fetch>>

\* Every result of one to MaxPages pages with up to MaxPageSize entries per
\* page, the same for each resource type.
InitPages ==
    /\ pc = "Extract"
    /\ trace = <<StageOf("Extract")>>
    /\ \E n \in 1..MaxPages :
          \E sizes \in [1..n -> 0..MaxPageSize] :
             ehr = [t \in {"Location", "PractitionerRole", "Patient",
                           "Appointment"} |-> Chain(sizes)]
    /\ sf = TargetWithContacts(0, TRUE)
    /\ faults = <<>>
    /\ InitLocals
    /\ appointments_df = NoFrame
    /\ sf_appointments_df = NoFrame
    /\ sf_id_maps = NoMaps

NextPages ==
    \/ ExtractCall
    \/ GetAllResourcesRequest
    \/ GetAllResourcesReturn
    \/ GetResource
    \/ RequestRaises

SpecPages == InitPages /\ [][NextPages]_vars

\* The entries of all pages of a chain in page order, and the page numbers
\* of the chain in order.
RECURSIVE EntriesUpTo(_, _)
EntriesUpTo(chain, i) ==
    IF i = 0 THEN <<>> ELSE EntriesUpTo(chain, i - 1) \o chain[i].entry

AllEntries(chain) == EntriesUpTo(chain, Len(chain))
EachPageOnce(chain) == [i \in 1..Len(chain) |-> i]

\* C21: for a result split over a finite chain of pages, every extract
\* operation of the pipeline (locations, practitioner roles, patients,
\* appointments) that has returned has returned the entries of all pages
\* in page order, having requested each page exactly once, following the
\* next-page links until a page had none.
C21_EveryExtractReturnsAllPages ==
    fetch.returned =>
       /\ fetch.entries = AllEntries(ehr[ResourceType(fetch.op)])
       /\ fetch.requests = EachPageOnce(ehr[ResourceType(fetch.op)])

\* The part of C21 that holds: the operations that go through
\* get_all_resources return all pages; the other two return the first.
C21_PaginatedExtractsReturnAllPages ==
    fetch.returned =>
       IF UsesGetAllResources(fetch.op)
       THEN /\ fetch.entries = AllEntries(ehr[ResourceType(fetch.op)])
            /\ fetch.requests = EachPageOnce(ehr[ResourceType(fetch.op)])
       ELSE /\ fetch.entries = ehr[ResourceType(fetch.op)][1].entry
            /\ fetch.requests = <<1>>

\* ------------------------------------- resource and contact of one entry
\* The queried ServiceResource and Contact records with the given Id.
ResourceOfId(id) ==
    {resource_query(sf)[n] : n \in
        {m \in DOMAIN resource_query(sf) : resource_query(sf)[m].Id = id}}
ContactOfId(id) ==
    {contact_query(sf)[n] : n \in
        {m \in DOMAIN contact_query(sf) : contact_query(sf)[m].Id = id}}

\* C22: every record in the output of transform_appointments_for_sf has its
\* Service_Resource__c and its ContactId from the practitioner_details entry
\* keyed by its appointment's practitioner_id: both are present, the
\* resource is a ServiceResource of that practitioner and the contact is
\* the Contact that carries that resource's Name, so no record pairs the
\* resource of one practitioner with the contact of another.
C22_ResourceAndContactFromSameEntry ==
    Resolved =>
       \A i \in DOMAIN appointments_df.rows :
          LET a == appointments_df.rows[i]
          IN \A out \in OutputOf(a) :
                /\ PractitionerMapped(a)
                /\ out.Service_Resource__c # None
                /\ out.ContactId # None
                /\ out.Service_Resource__c =
                      sf_id_maps.practitioner_details[a.practitioner_id]
                         .Service_Resource__c
                /\ out.ContactId =
                      sf_id_maps.practitioner_details[a.practitioner_id]
                         .ContactId
                /\ ResourceOfId(out.Service_Resource__c) # {}
                /\ ContactOfId(out.ContactId) # {}
                /\ \A r \in ResourceOfId(out.Service_Resource__c) :
                      /\ r.EHR_Resource_Id__c = a.practitioner_id
                      /\ \A c \in ContactOfId(out.ContactId) :
                            c.Name = r.Name

\* The run loaded two appointments of two practitioners, each of whom has an
\* entry of their own in practitioner_details.
C22_Witness ==
    /\ pc = "Done"
    /\ raised = ""
    /\ Cardinality(DOMAIN sf_id_maps.practitioner_details) = 2
    /\ \E i, j \in DOMAIN sf_appointments_df.rows :
          /\ sf_appointments_df.rows[i].Service_Resource__c
                # sf_appointments_df.rows[j].Service_Resource__c
          /\ sf_appointments_df.rows[i].ContactId
                # sf_appointments_df.rows[j].ContactId
    /\ \E k \in DOMAIN calls :
          IsCreate(k, {"ServiceAppointment"}) /\ calls[k].ok

\* ------------------------------------------ agreement of the two tables
\* C23: in every map build_sf_id_maps returned, also when the target holds
\* several ServiceResource records with the same EHR_Resource_Id__c, every
\* key k of practitioner_details is a key of practitioner_to_resource and
\* practitioner_details[k]['Service_Resource__c'] is
\* practitioner_to_resource[k].
C23_DetailsAgreeWithPractitionerToResource ==
    JustBuilt =>
       \A k \in DOMAIN sf_id_maps.practitioner_details :
          /\ k \in DOMAIN sf_id_maps.practitioner_to_resource
          /\ sf_id_maps.practitioner_details[k].Service_Resource__c
                = sf_id_maps.practitioner_to_resource[k]

\* The queried ServiceResource records with EHR_Resource_Id__c k, and
\* whether the last of them has a Name that a queried Contact has.
ResourcesOf(k) ==
    {n \in DOMAIN resource_query(sf) :
        resource_query(sf)[n].EHR_Resource_Id__c = k}
LastHasContact(k) ==
    \A n \in ResourcesOf(k) :
        (\A m \in ResourcesOf(k) : m <= n) => n \notin ResourcesWithoutContact

\* C23 as amended: in every map build_sf_id_maps returned, also when the
\* target holds several ServiceResource records with the same
\* EHR_Resource_Id__c, every key k of practitioner_details is a key of
\* practitioner_to_resource, and practitioner_details[k]
\* ['Service_Resource__c'] is the Id of a queried ServiceResource with
\* EHR_Resource_Id__c k whose Name a Contact has; it is
\* practitioner_to_resource[k] when the last queried ServiceResource with
\* EHR_Resource_Id__c k has a Name that a Contact has.
C23_DetailsAgreeWhenLastResourceHasContact ==
    JustBuilt =>
       \A k \in DOMAIN sf_id_maps.practitioner_details :
          /\ k \in DOMAIN sf_id_maps.practitioner_to_resource
          /\ \E n \in ResourcesOf(k) :
                /\ resource_query(sf)[n].Id
                      = sf_id_maps.practitioner_details[k].Service_Resource__c
                /\ n \notin ResourcesWithoutContact
          /\ LastHasContact(k) =>
                sf_id_maps.practitioner_details[k].Service_Resource__c
                   = sf_id_maps.practitioner_to_resource[k]

\* build_sf_id_maps returned maps for a target that holds two queried
\* ServiceResource records of one practitioner, the earlier with a Name
\* that a Contact has and the last with a Name no Contact has.
C23_Witness ==
    /\ JustBuilt
    /\ \E k \in DOMAIN sf_id_maps.practitioner_details :
          /\ Cardinality(ResourcesOf(k)) >= 2
          /\ ~LastHasContact(k)
          /\ sf_id_maps.practitioner_details[k].Service_Resource__c
                # sf_id_maps.practitioner_to_resource[k]

====
